---- MODULE Spec2Model ----
(***************************************************************************)
(* Model of the employee-attrition predictor: the feature-vector builder   *)
(* (AttritionPredictor._create_full_feature_vector), the prediction        *)
(* operations built on it, and their callers.                              *)
(*                                                                         *)
(* Representation                                                          *)
(*  - A Python dict whose key order matters (full_features, a test row)    *)
(*    is a record [keys |-> sequence of keys, val |-> function].           *)
(*  - A float is an exact fraction [num, den] in lowest terms (IEEE        *)
(*    division is correctly rounded, so a quotient that is representable,  *)
(*    such as 0 or 1, is the fraction itself).                             *)
(*  - A probability is an integer number of hundredths (0.68 is 68).       *)
(*  - A string is a sequence of tokens; the token "OTHER: " is the literal *)
(*    prefix the code tests for and removes, every other token is text     *)
(*    that does not contain it.                                            *)
(*  - A profile value is tagged with its Python type ("num" or "str").     *)
(***************************************************************************)
EXTENDS Integers, Sequences, FiniteSets, TLC

VARIABLES feature_columns, test_data, threshold, out, calls, analyzed, risk_level,
          narrative, displayed, current_session_file, chat_log, session_files, chat,
          construction, history

vars == <<feature_columns, test_data, threshold, out, calls, analyzed, risk_level,
          narrative, displayed, current_session_file, chat_log, session_files, chat,
          construction, history>>

(* ---------------------------- bounds ---------------------------------- *)

\* number of rows of the test dataset
NumRows == 2

\* largest number of attributes (besides the name) in an HTTP profile
MaxProfileAttrs == 2

\* number of chat requests that run concurrently against the shared analyzer
NumChatThreads == 2

\* number of analyses and chats that one analyzer serves one after the other
MaxSessionOps == 4

(* --------------------------- helpers ---------------------------------- *)

Range(s) == {s[i] : i \in DOMAIN s}

RECURSIVE GCD(_, _)
GCD(a, b) == IF b = 0 THEN a ELSE GCD(b, a % b)

Abs(n) == IF n < 0 THEN -n ELSE n

\* the float n / d (d > 0), as a fraction in lowest terms
Frac(n, d) == LET g == GCD(Abs(n), d) IN [num |-> n \div g, den |-> d \div g]

Zero == Frac(0, 1)

One == Frac(1, 1)

Num(n) == [t |-> "num", n |-> n, s |-> <<>>]

Str(s) == [t |-> "str", n |-> 0, s |-> s]

OtherPrefix == "OTHER: "

\* isinstance(value, str) and value.startswith("OTHER: ")
StartsWithOther(v) == v.t = "str" /\ Len(v.s) > 0 /\ v.s[1] = OtherPrefix

\* value.replace("OTHER: ", ""): every occurrence is removed, not only the prefix
ReplaceOther(s) == SelectSeq(s, LAMBDA tok : tok # OtherPrefix)

EmptyMap == [k \in {} |-> Zero]

EmptyDict == [keys |-> <<>>, val |-> EmptyMap]

\* d[k] = v on an insertion-ordered dict: a new key goes to the end
DictSet(d, k, v) ==
    IF k \in Range(d.keys)
    THEN [keys |-> d.keys, val |-> [d.val EXCEPT ![k] = v]]
    ELSE [keys |-> Append(d.keys, k), val |-> (k :> v) @@ d.val]

\* list(d.values())
DictValues(d) == [i \in DOMAIN d.keys |-> d.val[d.keys[i]]]

(* ------------------- static tables of the builder --------------------- *)

\* the five unconditional numeric normalisations: (value - mean) / std
numeric_mappings ==
    << [key |-> "Age", mean |-> 35, std |-> 10],
       [key |-> "MonthlyIncome", mean |-> 6000, std |-> 4000],
       [key |-> "YearsAtCompany", mean |-> 5, std |-> 5],
       [key |-> "TotalWorkingYears", mean |-> 10, std |-> 8],
       [key |-> "DistanceFromHome", mean |-> 10, std |-> 10] >>

optional_numeric_mappings ==
    << [key |-> "YearsInCurrentRole", feature_name |-> "YearsInCurrentRole", mean |-> 2, std |-> 3],
       [key |-> "YearsSinceLastPromotion", feature_name |-> "YearsSinceLastPromotion", mean |-> 2, std |-> 3],
       [key |-> "YearsWithCurrManager", feature_name |-> "YearsWithCurrManager", mean |-> 2, std |-> 3],
       [key |-> "TrainingTimesLastYear", feature_name |-> "TrainingTimesLastYear", mean |-> 2, std |-> 2] >>

\* attribute -> (option label -> model column)
categorical_mappings ==
    ("OverTime" :> (("Yes" :> "OverTime_Yes")))
    @@ ("Department" :> (("Sales" :> "Department_Sales") @@ ("Research & Development" :> "Department_Research & Development") @@ ("Human Resources" :> "Department_Human Resources")))
    @@ ("JobLevel" :> (("Entry Level" :> "JobLevel_1") @@ ("Junior Level" :> "JobLevel_2") @@ ("Mid Level" :> "JobLevel_3") @@ ("Senior Level" :> "JobLevel_4") @@ ("Executive Level" :> "JobLevel_5")))
    @@ ("JobSatisfaction" :> (("Low" :> "JobSatisfaction_1") @@ ("Medium" :> "JobSatisfaction_2") @@ ("High" :> "JobSatisfaction_3") @@ ("Very High" :> "JobSatisfaction_4")))
    @@ ("WorkLifeBalance" :> (("Bad" :> "WorkLifeBalance_1") @@ ("Good" :> "WorkLifeBalance_2") @@ ("Better" :> "WorkLifeBalance_3") @@ ("Best" :> "WorkLifeBalance_4")))
    @@ ("EnvironmentSatisfaction" :> (("Low" :> "EnvironmentSatisfaction_1") @@ ("Medium" :> "EnvironmentSatisfaction_2") @@ ("High" :> "EnvironmentSatisfaction_3") @@ ("Very High" :> "EnvironmentSatisfaction_4")))
    @@ ("MaritalStatus" :> (("Single" :> "MaritalStatus_Single") @@ ("Married" :> "MaritalStatus_Married") @@ ("Divorced" :> "MaritalStatus_Divorced")))
    @@ ("BusinessTravel" :> (("Travel_Rarely" :> "BusinessTravel_Travel_Rarely") @@ ("Travel_Frequently" :> "BusinessTravel_Travel_Frequently") @@ ("Non-Travel" :> "BusinessTravel_Non-Travel")))
    @@ ("Education" :> (("Below College" :> "Education_1") @@ ("College" :> "Education_2") @@ ("Bachelor" :> "Education_3") @@ ("Master" :> "Education_4") @@ ("Doctor" :> "Education_5")))
    @@ ("EducationField" :> (("Life Sciences" :> "EducationField_Life Sciences") @@ ("Medical" :> "EducationField_Medical") @@ ("Marketing" :> "EducationField_Marketing") @@ ("Technical Degree" :> "EducationField_Technical Degree") @@ ("Human Resources" :> "EducationField_Human Resources") @@ ("Other" :> "EducationField_Other")))
    @@ ("Gender" :> (("Male" :> "Gender_Male") @@ ("Female" :> "Gender_Female")))
    @@ ("JobInvolvement" :> (("Low" :> "JobInvolvement_1") @@ ("Medium" :> "JobInvolvement_2") @@ ("High" :> "JobInvolvement_3") @@ ("Very High" :> "JobInvolvement_4")))
    @@ ("JobRole" :> (("Sales Executive" :> "JobRole_Sales Executive") @@ ("Research Scientist" :> "JobRole_Research Scientist") @@ ("Laboratory Technician" :> "JobRole_Laboratory Technician") @@ ("Manufacturing Director" :> "JobRole_Manufacturing Director") @@ ("Healthcare Representative" :> "JobRole_Healthcare Representative") @@ ("Manager" :> "JobRole_Manager") @@ ("Sales Representative" :> "JobRole_Sales Representative") @@ ("Research Director" :> "JobRole_Research Director") @@ ("Human Resources" :> "JobRole_Human Resources")))
    @@ ("RelationshipSatisfaction" :> (("Low" :> "RelationshipSatisfaction_1") @@ ("Medium" :> "RelationshipSatisfaction_2") @@ ("High" :> "RelationshipSatisfaction_3") @@ ("Very High" :> "RelationshipSatisfaction_4")))
    @@ ("PerformanceRating" :> (("Excellent" :> "PerformanceRating_3") @@ ("Outstanding" :> "PerformanceRating_4")))

NumericKeys == {numeric_mappings[i].key : i \in DOMAIN numeric_mappings}

OptionalNumericKeys == {optional_numeric_mappings[i].key : i \in DOMAIN optional_numeric_mappings}

\* the columns one categorical attribute can set: its one-hot group
ColumnGroup(key) == {categorical_mappings[key][o] : o \in DOMAIN categorical_mappings[key]}

(* ------------------- _create_full_feature_vector ---------------------- *)

\* full_features = {col: 0.0 for col in self.feature_columns}
InitialFeatures(cols) == [keys |-> cols, val |-> [c \in Range(cols) |-> Zero]]

\* mutant of Normalize: the value is scaled but not centred
NormalizeUncentred(value, mean, std) == Frac(value, std)

\* (simplified_data[key] - mean) / std
Normalize(value, mean, std) == Frac(value - mean, std)

\* the five "if key in simplified_data" blocks, in code order; the column
\* is assigned whether or not it is a declared column
RECURSIVE MapNumeric(_, _, _)
MapNumeric(full, data, i) ==
    IF i > Len(numeric_mappings) THEN full
    ELSE LET m == numeric_mappings[i] IN
         MapNumeric(IF m.key \in DOMAIN data
                    THEN DictSet(full, m.key, Normalize(data[m.key].n, m.mean, m.std))
                    ELSE full,
                    data, i + 1)

\* the loop over optional_numeric_mappings: assigned only to a declared column
RECURSIVE MapOptionalNumeric(_, _, _)
MapOptionalNumeric(full, data, i) ==
    IF i > Len(optional_numeric_mappings) THEN full
    ELSE LET m == optional_numeric_mappings[i] IN
         MapOptionalNumeric(IF m.key \in DOMAIN data /\ m.feature_name \in Range(full.keys)
                            THEN DictSet(full, m.feature_name, Normalize(data[m.key].n, m.mean, m.std))
                            ELSE full,
                            data, i + 1)

\* the attribute reaches the categorical lookup and its value is a known label
KnownCategorical(key, value) ==
    /\ key # "name"
    /\ ~StartsWithOther(value)
    /\ key \in DOMAIN categorical_mappings
    /\ value.t = "str"
    /\ Len(value.s) = 1
    /\ value.s[1] \in DOMAIN categorical_mappings[key]

\* mutant of FeatureCol: one column of the group whatever the label
FeatureColAnyLabel(key, value) ==
    categorical_mappings[key][CHOOSE o \in DOMAIN categorical_mappings[key] : TRUE]

\* feature_col = categorical_mappings[key][value]
FeatureCol(key, value) == categorical_mappings[key][value.s[1]]

\* mutant of MapCategorical: a known label sets every declared column of
\* its attribute's group
MapCategoricalGroup(full, data) ==
    [keys |-> full.keys,
     val |-> [c \in DOMAIN full.val |->
               IF \E key \in DOMAIN data :
                     KnownCategorical(key, data[key]) /\ c \in ColumnGroup(key)
               THEN One ELSE full.val[c]]]

\* the loop over simplified_data.items(), model-column part: each attribute
\* writes only its own column, so the iteration order does not matter
MapCategorical(full, data) ==
    [keys |-> full.keys,
     val |-> [c \in DOMAIN full.val |->
               IF \E key \in DOMAIN data :
                     KnownCategorical(key, data[key]) /\ FeatureCol(key, data[key]) = c
               THEN One ELSE full.val[c]]]

\* the loop over simplified_data.items(), LLM-context part
LlmContext(data) ==
    [key \in {k \in DOMAIN data : k # "name" /\ StartsWithOther(data[k])} |->
        ReplaceOther(data[key].s)]

create_full_feature_vector(cols, data) ==
    [full_features |->
        MapCategorical(MapOptionalNumeric(MapNumeric(InitialFeatures(cols), data, 1), data, 1), data),
     llm_context |-> LlmContext(data)]

(* ------------------- loaded artefacts (read once) --------------------- *)

\* candidate contents of models/feature_columns.pkl: the training-time order
ColumnsEncoded ==
    << "Age", "DistanceFromHome", "MonthlyIncome", "NumCompaniesWorked",
       "TotalWorkingYears", "TrainingTimesLastYear", "YearsAtCompany",
       "YearsInCurrentRole", "YearsSinceLastPromotion", "YearsWithCurrManager",
       "BusinessTravel_Travel_Frequently", "BusinessTravel_Travel_Rarely",
       "Department_Research & Development", "Department_Sales",
       "EducationField_Medical", "EducationField_Other",
       "JobSatisfaction_2", "JobSatisfaction_3", "JobSatisfaction_4",
       "MaritalStatus_Married", "MaritalStatus_Single", "OverTime_Yes" >>

\* a list that keeps every one-hot column of the groups it uses
ColumnsAllLevels ==
    << "OverTime_Yes", "Department_Sales", "Department_Research & Development",
       "Department_Human Resources", "JobSatisfaction_1", "JobSatisfaction_2",
       "JobSatisfaction_3", "JobSatisfaction_4", "EducationField_Medical",
       "EducationField_Other", "YearsInCurrentRole", "DistanceFromHome",
       "YearsAtCompany", "MonthlyIncome", "Age", "TotalWorkingYears" >>

\* a list left by feature selection: some raw numeric columns are not declared
ColumnsSelected ==
    << "MonthlyIncome", "OverTime_Yes", "YearsAtCompany", "Department_Sales",
       "JobSatisfaction_1", "MaritalStatus_Single", "DistanceFromHome" >>

ColumnLists == {ColumnsEncoded, ColumnsAllLevels, ColumnsSelected}

Reverse(s) == [i \in DOMAIN s |-> s[Len(s) + 1 - i]]

\* header of data/test_data/test_data_with_predictions.csv: the declared
\* columns (in the file's own order) plus the outcome and prediction fields
CsvColumns(cols) == <<"Actual_Attrition">> \o Reverse(cols) \o <<"Predicted_Probability">>

\* row i (0-based) of the CSV, as a pandas Series in header order
CsvRow(cols, i) ==
    LET csv == CsvColumns(cols) IN
    [keys |-> csv,
     val |-> [c \in Range(csv) |->
               LET pos == CHOOSE j \in DOMAIN csv : csv[j] = c IN
               IF c = "Actual_Attrition" THEN Frac(i % 2, 1)
               ELSE Frac(((i + pos) % 5) - 2, 1 + (pos % 2))]]

\* pd.read_csv(...)
ReadCsv(cols) == [r \in 1..NumRows |-> CsvRow(cols, r - 1)]

\* hundredths the classifier may return as positive-class probability
Probs == {39, 40, 50, 60, 67, 68, 69, 70, 80}

(* ------------------------ result records ------------------------------ *)

EmptyProfile == [k \in {} |-> Num(0)]

EmptyContext == [k \in {} |-> <<>>]

\* op names the entry point, path the kind of prediction ("test" row,
\* "profile", or the analyzer's "custom" record), req echoes the row index a
\* test-row prediction was asked for; status is the HTTP status of an error
\* response and wrapped the status of the HTTPException it replaced.
\* kind: "none" (no request in progress), "vector" (builder output),
\* "result" (prediction dict), "error" (dict with an "error" key),
\* "raise" (an exception left the operation), "http" (HTTP error response)
NoResult ==
    [kind |-> "none", op |-> "", path |-> "", req |-> 0,
     status |-> 0, wrapped |-> 0, error |-> <<>>,
     employee_name |-> <<>>, employee_index |-> 0,
     attrition_probability |-> 0, will_leave |-> FALSE, actual_attrition |-> 0,
     simplified_input |-> EmptyProfile, features |-> EmptyDict,
     llm_context |-> EmptyContext, defaulted |-> {}, drawn |-> FALSE]

Raise(op, exc) == [NoResult EXCEPT !.kind = "raise", !.op = op, !.error = exc]

\* raise HTTPException(status_code=status, detail=detail)
HttpError(op, status, detail) ==
    [NoResult EXCEPT !.kind = "http", !.op = op, !.status = status, !.error = detail]

ScalerCall(vec) == [fn |-> "scaler.transform", scaled |-> FALSE, values |-> vec]

ModelCall(scaled, vec) == [fn |-> "model.predict_proba", scaled |-> scaled, values |-> vec]

\* mutant of TestRowCalls: the row is scaled before it is classified
TestRowCallsScaled(vec) == <<ScalerCall(vec), ModelCall(TRUE, vec)>>

\* feature_data = ...values.reshape(1, -1); self.model.predict_proba(feature_data)
TestRowCalls(vec) == <<ModelCall(FALSE, vec)>>

\* scaled_data = self.scaler.transform([...]); self.model.predict_proba(scaled_data)
ProfileCalls(vec) == <<ScalerCall(vec), ModelCall(TRUE, vec)>>

(* ------------------------- the predictor ------------------------------ *)

\* mutant of WillLeave: the comparison is strict
WillLeaveStrict(prob, thr) == prob > thr

\* prediction = 1 if prob >= self.threshold else 0; bool(prediction)
WillLeave(prob, thr) == prob >= thr

\* the guard of predict_from_test_data: the index is rejected as not found
IndexNotFound(employee_index, n) == employee_index >= n

\* f"Employee index {employee_index} not found. Max index: {len(self.test_data)-1}"
NotFoundMessage(employee_index, n) ==
    <<"Employee index ", ToString(employee_index), " not found. Max index: ", ToString(n - 1)>>

\* mutant of SelectColumns: the whole row is taken, in the file's order
SelectWholeRow(row, cols) == row

\* employee_row[self.feature_columns]: the row restricted to the declared
\* columns, in the order of the declared list
SelectColumns(row, cols) == [keys |-> cols, val |-> [c \in Range(cols) |-> row.val[c]]]

\* predict_from_test_data(employee_index), the classifier answering prob
predict_from_test_data(cols, data, thr, employee_index, prob) ==
    LET n == Len(data) IN
    IF IndexNotFound(employee_index, n)
    THEN [out |-> [NoResult EXCEPT !.kind = "error", !.op = "test", !.path = "test",
                                   !.req = employee_index,
                                   !.error = NotFoundMessage(employee_index, n)],
          calls |-> <<>>]
    ELSE IF employee_index < -n
    THEN \* .iloc with a negative position before the first row
         [out |-> [Raise("test", <<"IndexError">>) EXCEPT !.path = "test",
                                                            !.req = employee_index],
          calls |-> <<>>]
    ELSE LET \* .iloc counts a negative position from the end
             employee_row == data[(IF employee_index < 0 THEN n + employee_index
                                   ELSE employee_index) + 1]
             selected == SelectColumns(employee_row, cols)
         IN [out |-> [NoResult EXCEPT
                        !.kind = "result", !.op = "test", !.path = "test",
                        !.req = employee_index,
                        !.employee_name = <<"Test Employee ", ToString(employee_index)>>,
                        !.employee_index = employee_index,
                        !.attrition_probability = prob,
                        !.will_leave = WillLeave(prob, thr),
                        !.actual_attrition = employee_row.val["Actual_Attrition"].num,
                        !.features = selected],
             calls |-> TestRowCalls(DictValues(selected))]

\* "Convert to full feature vector" / "Scale and predict" and the result
\* dict, as written in predict_simplified_input and again in the HTTP
\* handlers; the scaler was fit on len(feature_columns) columns
predict_profile(op, cols, thr, employee_data, employee_name, prob) ==
    LET built == create_full_feature_vector(cols, employee_data)
        vec == DictValues(built.full_features)
    IN IF Len(vec) # Len(cols)
       THEN [out |-> [Raise(op, <<"ValueError">>) EXCEPT !.path = "profile"],
             calls |-> <<ScalerCall(vec)>>]
       ELSE [out |-> [NoResult EXCEPT
                        !.kind = "result", !.op = op, !.path = "profile",
                        !.employee_name = employee_name,
                        !.attrition_probability = prob,
                        !.will_leave = WillLeave(prob, thr),
                        !.simplified_input = employee_data,
                        !.features = built.full_features,
                        !.llm_context = built.llm_context],
             calls |-> ProfileCalls(vec)]

(* --------------------------- inputs ----------------------------------- *)

\* row indices a caller may ask for: below -N, negative, valid, N and above
TestIndices == (0 - NumRows - 1) .. (NumRows + 1)

FreeText == "Consulting"

\* values an attribute takes in the profiles that are enumerated
ProfileValues(key) ==
    CASE key = "Age" -> {Num(28), Num(35), Num(45), Num(70)}
      [] key = "MonthlyIncome" -> {Num(6000), Num(10000)}
      [] key = "YearsAtCompany" -> {Num(5), Num(10)}
      [] key = "TotalWorkingYears" -> {Num(18)}
      [] key = "DistanceFromHome" -> {Num(10), Num(20)}
      [] key = "YearsInCurrentRole" -> {Num(2), Num(5)}
      [] key = "OverTime" -> {Str(<<"Yes">>), Str(<<"No">>)}
      [] key = "Department" ->
            {Str(<<"Sales">>), Str(<<"Research & Development">>), Str(<<"Human Resources">>),
             Str(<<FreeText>>), Str(<<OtherPrefix, FreeText>>)}
      [] key = "EducationField" ->
            {Str(<<"Medical">>), Str(<<"Other">>), Str(<<OtherPrefix, FreeText>>),
             Str(<<OtherPrefix, OtherPrefix, FreeText>>)}
      [] key = "JobSatisfaction" -> {Str(<<"Low">>), Str(<<"Very High">>)}
      [] key = "employee_id" -> {Str(<<"E1">>)}

ProfileKeys ==
    {"Age", "MonthlyIncome", "YearsAtCompany", "TotalWorkingYears", "DistanceFromHome",
     "YearsInCurrentRole", "OverTime", "Department", "EducationField", "JobSatisfaction",
     "employee_id"}

\* every assignment of values to the attributes in keys
RECURSIVE ProfilesOn(_)
ProfilesOn(keys) ==
    IF keys = {} THEN {EmptyProfile}
    ELSE LET k == CHOOSE x \in keys : TRUE IN
         {(k :> v) @@ p : v \in ProfileValues(k), p \in ProfilesOn(keys \ {k})}

WithName(p) == ("name" :> Str(<<"A">>)) @@ p

\* the end-to-end profile: every numeric attribute one scale above its centre
ScenarioProfile ==
    WithName(("Age" :> Num(45)) @@ ("MonthlyIncome" :> Num(10000))
             @@ ("YearsAtCompany" :> Num(10)) @@ ("DistanceFromHome" :> Num(20))
             @@ ("OverTime" :> Str(<<"Yes">>)) @@ ("Department" :> Str(<<"Sales">>)))

\* profiles with at most MaxProfileAttrs attributes, with or without a name,
\* and the end-to-end profile
Profiles ==
    LET bare == UNION {ProfilesOn(d) : d \in {x \in SUBSET ProfileKeys : Cardinality(x) <= MaxProfileAttrs}}
    IN bare \cup {WithName(p) : p \in bare} \cup {ScenarioProfile}

\* the fields of the request model EmployeeData of the HTTP service
EmployeeDataFields ==
    {"name", "Age", "MonthlyIncome", "YearsAtCompany", "TotalWorkingYears",
     "DistanceFromHome", "OverTime", "Department", "JobLevel", "JobSatisfaction",
     "WorkLifeBalance", "EnvironmentSatisfaction", "MaritalStatus", "BusinessTravel",
     "JobRole"}

\* employee.dict() with the None fields dropped
HttpProfiles == {p \in Profiles : DOMAIN p \subseteq EmployeeDataFields}

None == [given |-> FALSE, value |-> 0]

Some(i) == [given |-> TRUE, value |-> i]

OptionalIndices == {None} \cup {Some(i) : i \in TestIndices}

NoEmployee == [given |-> FALSE, value |-> EmptyProfile]

OptionalEmployees == {NoEmployee} \cup {[given |-> TRUE, value |-> p] : p \in HttpProfiles}

\* the (test_index, employee) pairs of a prediction request: the employee is
\* not looked at when an index is given, so one employee stands for all there
PredictionRequests ==
    {[test_index |-> i, employee |-> e] :
        i \in OptionalIndices, e \in {NoEmployee, [given |-> TRUE, value |-> ScenarioProfile]}}
    \cup {[test_index |-> None, employee |-> e] : e \in OptionalEmployees}

(* ------------- config/simplified_features.json (schema) --------------- *)

\* the declarative schema of the interactive questions: per attribute its
\* type, whether it is required, and its valid range or option list
config_features ==
    << [key |-> "Age", type |-> "number", required |-> TRUE,
        min |-> 18, max |-> 65, options |-> <<>>],
       [key |-> "YearsAtCompany", type |-> "number", required |-> TRUE,
        min |-> 0, max |-> 40, options |-> <<>>],
       [key |-> "YearsInCurrentRole", type |-> "number", required |-> FALSE,
        min |-> 0, max |-> 20, options |-> <<>>],
       [key |-> "YearsSinceLastPromotion", type |-> "number", required |-> FALSE,
        min |-> 0, max |-> 15, options |-> <<>>],
       [key |-> "OverTime", type |-> "choice", required |-> TRUE,
        min |-> 0, max |-> 0, options |-> <<"Yes", "No">>],
       [key |-> "Department", type |-> "choice_with_other", required |-> TRUE,
        min |-> 0, max |-> 0,
        options |-> <<"Sales", "Research & Development", "Human Resources">>] >>

\* numbers a user may type as the answer to a numeric question
NumberAnswers(key) ==
    CASE key = "Age" -> {17, 35, 45, 66}
      [] key = "YearsAtCompany" -> {0 - 1, 5, 41}
      [] OTHER -> {5, 21}

\* texts a user may type at "Please specify"
CustomTexts == {<<FreeText>>, <<OtherPrefix, FreeText>>}

(* ---------------------- predict_simplified_input ---------------------- *)

\* default_values.get(key, 0)
DefaultValue(key) ==
    CASE key \in {"YearsInCurrentRole", "YearsWithCurrManager", "TrainingTimesLastYear"} -> 2
      [] key = "YearsSinceLastPromotion" -> 1
      [] OTHER -> 0

\* the two range tests that end in "continue"; a bound that is 0 (or absent)
\* is falsy and its test is skipped
InRange(f, value) ==
    /\ ~(f.min # 0 /\ value < f.min)
    /\ ~(f.max # 0 /\ value > f.max)

\* the values the question loop of one attribute can end with
CollectedValues(f) ==
    IF f.type = "number"
    THEN {Num(v) : v \in {a \in NumberAnswers(f.key) \cup
                                (IF f.required THEN {} ELSE {DefaultValue(f.key)}) :
                          InRange(f, a)}}
    ELSE {Str(<<f.options[i]>>) : i \in DOMAIN f.options}
         \cup {Str(<<OtherPrefix>> \o txt) : txt \in CustomTexts}

\* employee_data after the two collection loops: the name, then one entry per
\* attribute of type number or choice_with_other (no other type has a branch)
RECURSIVE CollectFrom(_)
CollectFrom(i) ==
    IF i > Len(config_features) THEN {WithName(EmptyProfile)}
    ELSE LET f == config_features[i] IN
         IF f.type \in {"number", "choice_with_other"}
         THEN {(f.key :> v) @@ p : v \in CollectedValues(f), p \in CollectFrom(i + 1)}
         ELSE CollectFrom(i + 1)

InteractiveProfiles == CollectFrom(1)

\* the optional questions that may have been skipped with Enter: those whose
\* stored value is the default
Skippable(employee_data) ==
    {config_features[i].key : i \in {j \in DOMAIN config_features :
        /\ config_features[j].type = "number"
        /\ ~config_features[j].required
        /\ employee_data[config_features[j].key].n = DefaultValue(config_features[j].key)}}

predict_simplified_input(cols, thr, employee_data, prob) ==
    predict_profile("interactive", cols, thr, employee_data, employee_data["name"].s, prob)

(* --------------------------- display_results -------------------------- *)

\* mutant of RiskLevel: the boundaries are open at the lower end
RiskLevelOpen(prob) ==
    IF prob > 70 THEN "HIGH RISK"
    ELSE IF prob > 40 THEN "MEDIUM RISK"
    ELSE "LOW RISK"

\* the "Risk level interpretation" of display_results
RiskLevel(prob) ==
    IF prob >= 70 THEN "HIGH RISK"
    ELSE IF prob >= 40 THEN "MEDIUM RISK"
    ELSE "LOW RISK"

(* ------------- display_prediction_results (streamlit.py) -------------- *)

\* mutant of risk_badge: the boundaries are open at the lower end
risk_badge_open(prob) ==
    IF prob > 70 THEN "HIGH RISK"
    ELSE IF prob > 40 THEN "MEDIUM RISK"
    ELSE "LOW RISK"

\* the risk badge that the Streamlit page shows next to the prediction
risk_badge(prob) ==
    IF prob >= 70 THEN "HIGH RISK"
    ELSE IF prob >= 40 THEN "MEDIUM RISK"
    ELSE "LOW RISK"

(* ------------------------ HTTP service (vertexai) --------------------- *)

\* the body of the try block shared by /get_attrition and /pipeline up to
\* the prediction; an HTTPException raised inside it is an Exception
predict_request(op, cols, data, thr, test_index, employee, prob) ==
    IF test_index.given
    THEN LET r == predict_from_test_data(cols, data, thr, test_index.value, prob) IN
         IF r.out.kind = "error"
         THEN [out |-> [HttpError(op, 404, r.out.error) EXCEPT !.path = "test",
                                                               !.req = test_index.value],
               calls |-> r.calls]
         ELSE [out |-> [r.out EXCEPT !.op = op], calls |-> r.calls]
    ELSE IF employee.given
    THEN IF DOMAIN employee.value = {}
         THEN [out |-> HttpError(op, 400, <<"No employee data provided">>), calls |-> <<>>]
         ELSE predict_profile(op, cols, thr, employee.value,
                              IF "name" \in DOMAIN employee.value
                              THEN employee.value["name"].s ELSE <<"Unknown">>,
                              prob)
    ELSE [out |-> HttpError(op, 400, <<"Provide either test_index or employee data">>),
          calls |-> <<>>]

\* except Exception as e: raise HTTPException(status_code=500, detail=str(e))
CatchAll(r) ==
    IF r.out.kind = "http"
    THEN [r EXCEPT !.out.status = 500, !.out.wrapped = r.out.status]
    ELSE IF r.out.kind = "raise"
    THEN [r EXCEPT !.out.kind = "http", !.out.status = 500]
    ELSE r

(* ------------------- the analyzer (llm_engagement) -------------------- *)

Marker == "## Follow-up Chat"

\* self.current_session_file = None
NoSessionFile == <<>>

\* self.current_session_file = None; self.chat_log = []; an empty outputs directory
NewSession == [current_session_file |-> NoSessionFile,
               chat_log |-> <<>>,
               session_files |-> [f \in {} |-> <<>>]]

\* what self.llm.invoke produces: a response with its content, or an exception
LlmResponses ==
    {[ok |-> TRUE, content |-> <<"Retention plan">>],
     [ok |-> FALSE, content |-> <<"LLM unavailable">>]}

\* the seconds at which datetime.now() is read
Times == {1, 2}

\* one piece of employee_name.replace(" ", "_").replace("/", "_")
CleanPiece(piece) ==
    CASE piece = "Test Employee " -> "Test_Employee_"
      [] piece = "Unknown Employee" -> "Unknown_Employee"
      [] OTHER -> piece

\* f"employee_analysis_{employee_clean}_{timestamp}.md"
SessionFileName(employee_name, now) ==
    <<"employee_analysis_">> \o [i \in 1 .. Len(employee_name) |-> CleanPiece(employee_name[i])]
        \o <<"_", ToString(now), ".md">>

\* the markdown report of _save_analysis_to_file
ReportContent(employee_name, attrition_prob, analysis_content) ==
    <<"# Employee Attrition Analysis Report", "**Employee:** ">> \o employee_name
        \o <<"**Attrition Probability:** ", ToString(attrition_prob), "---">>
        \o analysis_content
        \o <<"---", "*Generated by Employee Attrition Analysis System*">>

\* mutant of save_analysis_to_file: the chat log of the previous session is kept
save_analysis_keeping_log(session, employee_name, attrition_prob, analysis_content, now) ==
    LET filepath == SessionFileName(employee_name, now) IN
    [current_session_file |-> filepath,
     chat_log |-> session.chat_log,
     session_files |-> (filepath :> ReportContent(employee_name, attrition_prob, analysis_content))
                           @@ session.session_files]

\* _save_analysis_to_file: writes the report, makes it the current session
\* file and empties the chat log
save_analysis_to_file(session, employee_name, attrition_prob, analysis_content, now) ==
    LET filepath == SessionFileName(employee_name, now) IN
    [current_session_file |-> filepath,
     chat_log |-> <<>>,
     session_files |-> (filepath :> ReportContent(employee_name, attrition_prob, analysis_content))
                           @@ session.session_files]

\* mutant of analyze_attrition_risk: the failure of the LLM call is not
\* caught inside the analyzer and reaches the caller
analyze_attrition_risk_raising(session, prediction_result, response, now) ==
    IF response.ok
    THEN [raised |-> FALSE, content |-> response.content,
          session |-> save_analysis_to_file(session, prediction_result.employee_name,
                                            prediction_result.attrition_probability,
                                            response.content, now)]
    ELSE [raised |-> TRUE, content |-> response.content, session |-> session]

\* analyze_attrition_risk: the whole body is inside try/except Exception, so
\* a failing LLM call yields the string "Analysis failed: ..." and no file
analyze_attrition_risk(session, prediction_result, response, now) ==
    IF response.ok
    THEN [raised |-> FALSE, content |-> response.content,
          session |-> save_analysis_to_file(session, prediction_result.employee_name,
                                            prediction_result.attrition_probability,
                                            response.content, now)]
    ELSE [raised |-> FALSE, content |-> <<"Analysis failed: ">> \o response.content,
          session |-> session]

\* get_conversation_starter: which of the three question lists is returned
get_conversation_starter(attrition_probability) ==
    IF attrition_probability >= 70 THEN "high"
    ELSE IF attrition_probability >= 40 THEN "medium"
    ELSE "low"

NoNarrative == [state |-> "none", analysis |-> <<>>, suggested |-> ""]

\* the analysis as the caller holds it after analyze_attrition_risk returned
Narrative(response, a, suggested) ==
    [state |-> IF response.ok THEN "ok" ELSE "failed",
     analysis |-> a.content, suggested |-> suggested]

\* no chat request is in progress
NoChats ==
    [t \in 1 .. NumChatThreads |-> [pc |-> "idle", question |-> <<>>, response |-> <<>>,
                                    section |-> <<>>, existing_content |-> <<>>]]

\* the analyses and chats served so far and the second of the last one
NoHistory == [clock |-> 1, analyses |-> <<>>, chats |-> <<>>]

NotDisplayed ==
    [shown |-> FALSE, attrition_probability |-> 0, will_leave |-> FALSE, risk_badge |-> ""]

\* main.py prints probability and decision of the prediction
Display(prediction_result) ==
    [shown |-> TRUE, attrition_probability |-> prediction_result.attrition_probability,
     will_leave |-> prediction_result.will_leave, risk_badge |-> ""]

\* the attributes that __init__ assigns inside its try block, in load order
Components == {"model", "scaler", "feature_columns"}

(* ----------------------------- actions -------------------------------- *)

Threshold == 68

Init ==
    /\ feature_columns \in ColumnLists
    /\ test_data = ReadCsv(feature_columns)
    /\ threshold = Threshold
    /\ out = NoResult
    /\ calls = <<>>
    /\ analyzed = NoResult
    /\ risk_level = ""
    /\ narrative = NoNarrative
    /\ displayed = NotDisplayed
    /\ current_session_file = NewSession.current_session_file
    /\ chat_log = NewSession.chat_log
    /\ session_files = NewSession.session_files
    /\ chat = NoChats
    /\ construction = [pc |-> "done", loaded |-> Components]
    /\ history = NoHistory

Idle == out.kind = "none"

\* __init__ has returned without raising
Constructed == construction.pc = "done"

\* an attribute that was never assigned is read: AttributeError; the index
\* test and .iloc come before the first use of a loaded component
with_components(loaded, needed, r) ==
    IF r.out.kind = "result" /\ ~(needed \subseteq loaded)
    THEN [out |-> [Raise(r.out.op, <<"AttributeError">>) EXCEPT !.path = r.out.path,
                                                                !.req = r.out.req],
          calls |-> <<>>]
    ELSE r

\* mutant of ColumnsAfter: the builder fills the predictor's own column list
ColumnsAfterAliased(cols, result) ==
    IF result.path = "profile" /\ result.kind \in {"vector", "result"}
    THEN result.features.keys ELSE cols

\* self.feature_columns after an operation: it is only read; the builder
\* copies its names into a new dict
ColumnsAfter(cols, result) == cols

\* the artefacts loaded by __init__ after an operation that produced out'
Loaded ==
    /\ feature_columns' = ColumnsAfter(feature_columns, out')
    /\ UNCHANGED <<test_data, threshold, construction, history>>

Session == [current_session_file |-> current_session_file,
            chat_log |-> chat_log,
            session_files |-> session_files]

SetSession(session) ==
    /\ current_session_file' = session.current_session_file
    /\ chat_log' = session.chat_log
    /\ session_files' = session.session_files

\* the operation does not involve the analyzer
NoAnalysis ==
    UNCHANGED <<narrative, displayed, current_session_file, chat_log, session_files, chat>>

\* a direct call of _create_full_feature_vector
CreateFullFeatureVector ==
    /\ Idle
    /\ \E p \in Profiles :
         LET built == create_full_feature_vector(feature_columns, p) IN
         out' = [NoResult EXCEPT !.kind = "vector", !.op = "build", !.path = "profile",
                                 !.simplified_input = p,
                                 !.features = built.full_features,
                                 !.llm_context = built.llm_context]
    /\ UNCHANGED <<calls, analyzed, risk_level>>
    /\ NoAnalysis
    /\ Loaded

\* a direct call of predict_from_test_data
PredictFromTestData ==
    /\ Idle
    /\ Constructed
    /\ \E i \in TestIndices, prob \in Probs :
         LET r == with_components(construction.loaded, {"feature_columns", "model"},
                     predict_from_test_data(feature_columns, test_data, threshold, i, prob))
         IN
         /\ out' = r.out
         /\ calls' = r.calls
    /\ UNCHANGED <<analyzed, risk_level>>
    /\ NoAnalysis
    /\ Loaded

\* a direct call of predict_simplified_input
PredictSimplifiedInput ==
    /\ Idle
    /\ \E p \in InteractiveProfiles, prob \in Probs :
         \E skipped \in SUBSET Skippable(p) :
            LET r == predict_simplified_input(feature_columns, threshold, p, prob) IN
            /\ out' = [r.out EXCEPT !.defaulted = skipped]
            /\ calls' = r.calls
    /\ UNCHANGED <<analyzed, risk_level>>
    /\ NoAnalysis
    /\ Loaded

\* run_standalone: the index question is repeated while the answer is
\* rejected as not found; the result is then displayed
RunStandalone ==
    /\ Idle
    /\ \E choice \in {1, 2}, i \in TestIndices, p \in InteractiveProfiles, prob \in Probs :
         LET r == IF choice = 1
                  THEN predict_from_test_data(feature_columns, test_data, threshold, i, prob)
                  ELSE predict_simplified_input(feature_columns, threshold, p, prob)
         IN /\ r.out.kind # "error"
            /\ \E skipped \in SUBSET (IF choice = 2 THEN Skippable(p) ELSE {}) :
                  out' = [r.out EXCEPT !.op = "standalone", !.defaulted = skipped]
            /\ calls' = r.calls
            /\ risk_level' = IF r.out.kind = "result"
                             THEN RiskLevel(r.out.attrition_probability) ELSE ""
    /\ UNCHANGED analyzed
    /\ NoAnalysis
    /\ Loaded

\* POST /get_attrition
GetAttrition ==
    /\ Idle
    /\ \E request \in PredictionRequests, prob \in Probs :
         LET r == CatchAll(predict_request("get_attrition", feature_columns, test_data,
                                           threshold, request.test_index,
                                           request.employee, prob))
         IN /\ out' = r.out
            /\ calls' = r.calls
    /\ UNCHANGED <<analyzed, risk_level>>
    /\ NoAnalysis
    /\ Loaded

\* the response once a prediction exists and the analyzer has been called:
\* an exception out of the analyzer becomes the handler's status 500
AfterAnalysis(op, prediction_result, response, a, suggested) ==
    [out |-> IF a.raised
             THEN [HttpError(op, 500, response.content) EXCEPT !.path = prediction_result.path,
                                                               !.req = prediction_result.req]
             ELSE prediction_result,
     narrative |-> IF a.raised THEN [NoNarrative EXCEPT !.state = "failed"]
                   ELSE Narrative(response, a, suggested)]

\* POST /pipeline (vertexai): the prediction, then analyzer.analyze_attrition_risk
Pipeline ==
    /\ Idle
    /\ \E request \in PredictionRequests, prob \in Probs,
          response \in LlmResponses, now \in Times :
         LET r == predict_request("pipeline", feature_columns, test_data,
                                  threshold, request.test_index, request.employee, prob)
             a == analyze_attrition_risk(Session, r.out, response, now)
             done == AfterAnalysis("pipeline", r.out, response, a, "")
         IN /\ calls' = r.calls
            /\ IF r.out.kind = "result"
               THEN /\ out' = done.out
                    /\ analyzed' = r.out
                    /\ narrative' = done.narrative
                    /\ SetSession(a.session)
               ELSE /\ out' = CatchAll(r).out
                    /\ analyzed' = NoResult
                    /\ narrative' = NoNarrative
                    /\ UNCHANGED <<current_session_file, chat_log, session_files>>
    /\ UNCHANGED <<risk_level, displayed, chat>>
    /\ Loaded

\* the body of an /analyze request (GCP_fastAPI)
AnalysisRequests ==
    {[choice |-> c, employee_index |-> i, employee_data |-> e] :
        c \in {1, 2, 3}, i \in OptionalIndices,
        e \in {NoEmployee, [given |-> TRUE, value |-> ScenarioProfile]}}

\* random.randint(0, max_index): any index of the closed range, or ValueError
\* when the range is empty
RandomIndices(max_index) ==
    IF max_index >= 0 THEN {[ok |-> TRUE, value |-> i] : i \in 0 .. max_index}
    ELSE {[ok |-> FALSE, value |-> 0]}

\* the draw failed: the exception leaves the caller before any prediction
DrawFailed(op) ==
    [out |-> [Raise(op, <<"ValueError">>) EXCEPT !.path = "test", !.drawn = TRUE],
     calls |-> <<>>]

\* Step 1 of analyze_employee: the prediction for the request's choice;
\* predict_simplified_input takes no argument, so passing the profile is a
\* TypeError
analyze_prediction(loaded, cols, data, thr, request, random_index, prob) ==
    IF request.choice = 1
    THEN LET drawn == ~request.employee_index.given
             employee_index == IF drawn THEN random_index.value
                               ELSE request.employee_index.value
             r == with_components(loaded, {"feature_columns", "model"},
                     predict_from_test_data(cols, data, thr, employee_index, prob))
         IN IF drawn /\ ~random_index.ok
            THEN DrawFailed("analyze")
            ELSE IF r.out.kind = "error"
            THEN [out |-> [HttpError("analyze", 404, r.out.error)
                              EXCEPT !.path = "test", !.req = employee_index,
                                     !.drawn = drawn],
                  calls |-> r.calls]
            ELSE [out |-> [r.out EXCEPT !.op = "analyze", !.drawn = drawn],
                  calls |-> r.calls]
    ELSE IF request.choice = 2
    THEN IF ~request.employee_data.given
         THEN [out |-> HttpError("analyze", 400, <<"Employee data required for choice 2">>),
               calls |-> <<>>]
         ELSE [out |-> [Raise("analyze", <<"TypeError">>) EXCEPT !.path = "profile"],
               calls |-> <<>>]
    ELSE [out |-> HttpError("analyze", 400, <<"Choice must be 1 or 2">>), calls |-> <<>>]

\* POST /analyze (GCP_fastAPI): prediction, analysis, suggested questions
AnalyzeEmployee ==
    /\ Idle
    /\ Constructed
    /\ \E request \in AnalysisRequests, random_index \in RandomIndices(Len(test_data) - 1),
          prob \in Probs, response \in LlmResponses, now \in Times :
         LET r == analyze_prediction(construction.loaded, feature_columns, test_data,
                                     threshold, request, random_index, prob)
             a == analyze_attrition_risk(Session, r.out, response, now)
             done == AfterAnalysis("analyze", r.out, response, a,
                                   get_conversation_starter(r.out.attrition_probability))
         IN /\ calls' = r.calls
            /\ IF r.out.kind = "result"
               THEN /\ out' = done.out
                    /\ analyzed' = r.out
                    /\ narrative' = done.narrative
                    /\ SetSession(a.session)
               ELSE /\ out' = r.out
                    /\ analyzed' = NoResult
                    /\ narrative' = NoNarrative
                    /\ UNCHANGED <<current_session_file, chat_log, session_files>>
    /\ UNCHANGED <<risk_level, displayed, chat>>
    /\ Loaded

\* main.py up to the chat loop: prediction, display, analysis, suggestions
Main ==
    /\ Idle
    /\ Constructed
    /\ \E choice \in {1, 2}, random_index \in RandomIndices(Len(test_data) - 1),
          prob \in Probs, response \in LlmResponses, now \in Times :
         LET r == IF random_index.ok
                  THEN with_components(construction.loaded, {"feature_columns", "model"},
                          predict_from_test_data(feature_columns, test_data, threshold,
                                                 random_index.value, prob))
                  ELSE DrawFailed("main")
             a == analyze_attrition_risk(Session, r.out, response, now)
         IN
         IF choice = 1 /\ r.out.kind # "result"
         THEN \* the exception, or the missing key of an error result, ends main
              /\ out' = [r.out EXCEPT !.op = "main", !.drawn = TRUE]
              /\ UNCHANGED <<calls, displayed, analyzed, narrative,
                             current_session_file, chat_log, session_files>>
         ELSE IF choice = 1
         THEN    /\ out' = [r.out EXCEPT !.op = "main", !.drawn = TRUE]
                 /\ calls' = r.calls
                 /\ displayed' = Display(r.out)
                 /\ analyzed' = r.out
                 /\ narrative' = IF a.raised THEN [NoNarrative EXCEPT !.state = "failed"]
                                 ELSE Narrative(response, a,
                                         get_conversation_starter(r.out.attrition_probability))
                 /\ SetSession(IF a.raised THEN Session ELSE a.session)
         ELSE /\ out' = [Raise("main", <<"TypeError">>) EXCEPT !.path = "profile"]
              /\ UNCHANGED <<calls, displayed, analyzed, narrative,
                             current_session_file, chat_log, session_files>>
    /\ UNCHANGED <<risk_level, chat>>
    /\ Loaded

\* what the user types at "Enter attrition probability": a number of
\* hundredths, or text that float() rejects
ProbabilityInputs ==
    {[parsable |-> TRUE, value |-> v] : v \in Probs \cup {0, 100, 150}}
    \cup {[parsable |-> FALSE, value |-> 0]}

\* EmployeeEngagementAnalyzer.run_custom_analysis up to the analysis call
custom_result(employee_name, input) ==
    LET attrition_prob == IF input.parsable /\ 0 <= input.value /\ input.value <= 100
                          THEN input.value ELSE 50
    IN [NoResult EXCEPT !.kind = "result", !.op = "custom", !.path = "custom",
                        !.employee_name = employee_name,
                        !.attrition_probability = attrition_prob,
                        !.will_leave = (attrition_prob >= 50),
                        !.simplified_input = ("name" :> Str(employee_name))]

RunCustomAnalysis ==
    /\ Idle
    /\ \E input \in ProbabilityInputs :
         /\ out' = custom_result(<<"A">>, input)
         /\ analyzed' = custom_result(<<"A">>, input)
    /\ UNCHANGED <<calls, risk_level>>
    /\ NoAnalysis
    /\ Loaded

\* the operation has returned and its request-scoped values are dropped; a
\* run is followed for one request, so the analyzer's session is dropped with
\* it (requests that share a session are followed in SpecChat)
Return ==
    /\ ~Idle
    /\ out' = NoResult
    /\ calls' = <<>>
    /\ analyzed' = NoResult
    /\ risk_level' = ""
    /\ narrative' = NoNarrative
    /\ displayed' = NotDisplayed
    /\ SetSession(NewSession)
    /\ UNCHANGED chat
    /\ Loaded

Next ==
    \/ CreateFullFeatureVector
    \/ PredictFromTestData
    \/ PredictSimplifiedInput
    \/ RunStandalone
    \/ GetAttrition
    \/ Pipeline
    \/ AnalyzeEmployee
    \/ Main
    \/ RunCustomAnalysis
    \/ Return

Spec == Init /\ [][Next]_vars

(* ------------------- construction of the predictor -------------------- *)

\* whether a file can be loaded
LoadOutcomes == BOOLEAN

\* the number of data rows the test CSV may hold
RowCounts == {0, NumRows}

\* the request part and the analyzer part of the state are not touched
\* while the predictor is constructed
NotServing ==
    UNCHANGED <<out, calls, analyzed, risk_level, narrative, displayed,
                current_session_file, chat_log, session_files, chat, history>>

\* self.model = joblib.load(...): a failure leaves the try block with a warning
LoadModel ==
    /\ construction.pc = "model"
    /\ \E ok \in LoadOutcomes :
         construction' = IF ok THEN [pc |-> "scaler", loaded |-> construction.loaded \cup {"model"}]
                         ELSE [construction EXCEPT !.pc = "csv"]
    /\ UNCHANGED <<feature_columns, test_data, threshold>>
    /\ NotServing

\* self.scaler = joblib.load(...)
LoadScaler ==
    /\ construction.pc = "scaler"
    /\ \E ok \in LoadOutcomes :
         construction' = IF ok THEN [pc |-> "columns", loaded |-> construction.loaded \cup {"scaler"}]
                         ELSE [construction EXCEPT !.pc = "csv"]
    /\ UNCHANGED <<feature_columns, test_data, threshold>>
    /\ NotServing

\* self.feature_columns = joblib.load(...)
LoadFeatureColumns ==
    /\ construction.pc = "columns"
    /\ \E ok \in LoadOutcomes, cols \in ColumnLists :
         IF ok
         THEN /\ construction' = [pc |-> "csv",
                                  loaded |-> construction.loaded \cup {"feature_columns"}]
              /\ feature_columns' = cols
         ELSE /\ construction' = [construction EXCEPT !.pc = "csv"]
              /\ UNCHANGED feature_columns
    /\ UNCHANGED <<test_data, threshold>>
    /\ NotServing

\* self.test_data = pd.read_csv(...): outside the try block, a failure leaves
\* __init__ with the exception
LoadTestData ==
    /\ construction.pc = "csv"
    /\ \E ok \in LoadOutcomes, cols \in ColumnLists, n \in RowCounts :
         IF ok
         THEN /\ "feature_columns" \in construction.loaded => cols = feature_columns
              /\ test_data' = SubSeq(ReadCsv(cols), 1, n)
              /\ construction' = [construction EXCEPT !.pc = "config"]
         ELSE /\ construction' = [construction EXCEPT !.pc = "failed"]
              /\ UNCHANGED test_data
    /\ UNCHANGED <<feature_columns, threshold>>
    /\ NotServing

\* self.config = json.load(f); self.threshold = 0.68
LoadConfig ==
    /\ construction.pc = "config"
    /\ \E ok \in LoadOutcomes :
         IF ok
         THEN /\ threshold' = Threshold
              /\ construction' = [construction EXCEPT !.pc = "done"]
         ELSE /\ construction' = [construction EXCEPT !.pc = "failed"]
              /\ UNCHANGED threshold
    /\ UNCHANGED <<feature_columns, test_data>>
    /\ NotServing

\* AttritionPredictor() is being called: no attribute is assigned yet
InitLoad ==
    /\ feature_columns = <<>>
    /\ test_data = <<>>
    /\ threshold = 0
    /\ out = NoResult
    /\ calls = <<>>
    /\ analyzed = NoResult
    /\ risk_level = ""
    /\ narrative = NoNarrative
    /\ displayed = NotDisplayed
    /\ current_session_file = NewSession.current_session_file
    /\ chat_log = NewSession.chat_log
    /\ session_files = NewSession.session_files
    /\ chat = NoChats
    /\ construction = [pc |-> "model", loaded |-> {}]
    /\ history = NoHistory

NextLoad ==
    \/ LoadModel
    \/ LoadScaler
    \/ LoadFeatureColumns
    \/ LoadTestData
    \/ LoadConfig
    \/ PredictFromTestData
    \/ AnalyzeEmployee
    \/ Main
    \/ Return

SpecLoad == InitLoad /\ [][NextLoad]_vars

(* ------------- concurrent chat requests on the shared analyzer --------- *)

\* the worker threads that serve /chat requests
Threads == 1 .. NumChatThreads

\* the question of the request served by thread t
QuestionOf(t) == <<"Question ", ToString(t)>>

\* the text of one chat_log entry inside chat_section
EntryText(entry) ==
    <<"### Question">> \o entry.question \o <<"### Response">> \o entry.response \o <<"---">>

\* chat_section: the marker heading, then every entry of the chat log
RECURSIVE EntriesText(_)
EntriesText(log) ==
    IF log = <<>> THEN <<>> ELSE EntryText(Head(log)) \o EntriesText(Tail(log))

ChatSection(log) == <<Marker>> \o EntriesText(log)

\* existing_content.split("## Follow-up Chat")[0] when the marker occurs
BeforeMarker(content) ==
    IF \E i \in DOMAIN content : content[i] = Marker
    THEN SubSeq(content, 1, (CHOOSE i \in DOMAIN content :
                                /\ content[i] = Marker
                                /\ \A j \in 1 .. (i - 1) : content[j] # Marker) - 1)
    ELSE content

\* the prediction part of the state plays no role in a chat request
NoPrediction ==
    UNCHANGED <<feature_columns, test_data, threshold, out, calls, analyzed, risk_level,
                narrative, displayed, construction, history>>

\* an analysis request has succeeded: _save_analysis_to_file starts the session
ChatSessionStart ==
    /\ current_session_file = NoSessionFile
    /\ \E now \in Times :
         SetSession(save_analysis_to_file(Session, <<"A">>, 70, <<"Retention plan">>, now))
    /\ UNCHANGED chat
    /\ NoPrediction

\* chat_with_llm up to the LLM call: a failing call ends the request with
\* "Chat failed: ..." and nothing is logged
ChatInvoke(t) ==
    /\ chat[t].pc = "idle"
    /\ \E response \in LlmResponses :
         chat' = [chat EXCEPT ![t].question = QuestionOf(t),
                              ![t].response = response.content,
                              ![t].pc = IF response.ok THEN "log" ELSE "done"]
    /\ UNCHANGED <<current_session_file, chat_log, session_files>>
    /\ NoPrediction

\* _log_chat_interaction: return without a session file, else
\* self.chat_log.append(chat_entry)
ChatAppend(t) ==
    /\ chat[t].pc = "log"
    /\ IF current_session_file = NoSessionFile
       THEN /\ chat' = [chat EXCEPT ![t].pc = "done"]
            /\ UNCHANGED chat_log
       ELSE /\ chat_log' = Append(chat_log, [question |-> chat[t].question,
                                             response |-> chat[t].response])
            /\ chat' = [chat EXCEPT ![t].pc = "build"]
    /\ UNCHANGED <<current_session_file, session_files>>
    /\ NoPrediction

\* _log_chat_interaction: chat_section is built from the whole chat log
ChatBuild(t) ==
    /\ chat[t].pc = "build"
    /\ chat' = [chat EXCEPT ![t].section = ChatSection(chat_log), ![t].pc = "read"]
    /\ UNCHANGED <<current_session_file, chat_log, session_files>>
    /\ NoPrediction

\* _log_chat_interaction: the file is read and a previous chat section cut off
ChatRead(t) ==
    /\ chat[t].pc = "read"
    /\ chat' = [chat EXCEPT ![t].existing_content =
                                 BeforeMarker(session_files[current_session_file]),
                            ![t].pc = "open"]
    /\ UNCHANGED <<current_session_file, chat_log, session_files>>
    /\ NoPrediction

\* _log_chat_interaction: open(self.current_session_file, 'w') truncates the file
ChatOpen(t) ==
    /\ chat[t].pc = "open"
    /\ session_files' = [session_files EXCEPT ![current_session_file] = <<>>]
    /\ chat' = [chat EXCEPT ![t].pc = "write"]
    /\ UNCHANGED <<current_session_file, chat_log>>
    /\ NoPrediction

\* _log_chat_interaction: f.write(existing_content + chat_section) and close
ChatWrite(t) ==
    /\ chat[t].pc = "write"
    /\ session_files' = [session_files EXCEPT ![current_session_file] =
                             chat[t].existing_content \o chat[t].section]
    /\ chat' = [chat EXCEPT ![t].pc = "done"]
    /\ UNCHANGED <<current_session_file, chat_log>>
    /\ NoPrediction

InitChat == Init /\ feature_columns = ColumnsAllLevels

NextChat ==
    \/ ChatSessionStart
    \/ \E t \in Threads : ChatInvoke(t)
    \/ \E t \in Threads : ChatAppend(t)
    \/ \E t \in Threads : ChatBuild(t)
    \/ \E t \in Threads : ChatRead(t)
    \/ \E t \in Threads : ChatOpen(t)
    \/ \E t \in Threads : ChatWrite(t)

SpecChat == InitChat /\ [][NextChat]_vars

(* ------- analyses and chats served one after the other (one analyzer) --- *)

\* the employees the requests are about
SessionNames == {<<"A">>, <<"B">>}

\* what the LLM answers to an analysis prompt: a plan, a plan whose markdown
\* has a heading "## Follow-up Chat", or an exception
SessionResponses ==
    LlmResponses \cup
        {[ok |-> TRUE, content |-> <<"Retention plan", Marker, "Talking points">>]}

\* the question of the n-th chat request, asked about the employee
SessionQuestion(n, employee_name) ==
    <<"Question ", ToString(n), " about ">> \o employee_name

\* _log_chat_interaction run from its first to its last line
log_chat_interaction(session, question, response) ==
    IF session.current_session_file = NoSessionFile
    THEN session
    ELSE LET log == Append(session.chat_log, [question |-> question, response |-> response])
             existing_content == BeforeMarker(session.session_files[session.current_session_file])
         IN [current_session_file |-> session.current_session_file,
             chat_log |-> log,
             session_files |-> [session.session_files EXCEPT
                                   ![session.current_session_file] =
                                       existing_content \o ChatSection(log)]]

\* chat_with_llm: the context (employee name, probability) only enters the
\* prompt; a failing LLM call returns "Chat failed: ..." and logs nothing
chat_with_llm(session, question, context, response) ==
    IF response.ok
    THEN log_chat_interaction(session, question, response.content)
    ELSE session

\* the prediction part of the state and the chat threads play no role
SessionFrame ==
    UNCHANGED <<feature_columns, test_data, threshold, out, calls, analyzed, risk_level,
                narrative, displayed, construction, chat>>

SessionOps == Len(history.analyses) + Len(history.chats)

\* /analyze (or the CLI): analyze_attrition_risk for an employee at second now
SessionAnalyze ==
    /\ SessionOps < MaxSessionOps
    /\ \E employee_name \in SessionNames, response \in SessionResponses, now \in Times :
         LET a == analyze_attrition_risk(Session,
                                         [employee_name |-> employee_name,
                                          attrition_probability |-> 70],
                                         response, now)
         IN /\ now >= history.clock
            /\ SetSession(a.session)
            /\ history' = [history EXCEPT
                              !.clock = now,
                              !.analyses = Append(@, [employee_name |-> employee_name,
                                                      ok |-> response.ok,
                                                      file |-> IF response.ok
                                                               THEN a.session.current_session_file
                                                               ELSE NoSessionFile,
                                                      report |-> IF response.ok
                                                                 THEN ReportContent(employee_name, 70,
                                                                                    response.content)
                                                                 ELSE <<>>])]
    /\ SessionFrame

\* /chat: chat_with_llm(request.question, context) about an employee
SessionChat ==
    /\ SessionOps < MaxSessionOps
    /\ \E employee_name \in SessionNames, response \in LlmResponses :
         LET question == SessionQuestion(Len(history.chats) + 1, employee_name)
             context == [employee_name |-> employee_name, attrition_probability |-> 70]
             after == chat_with_llm(Session, question, context, response)
         IN /\ SetSession(after)
            /\ history' = [history EXCEPT
                              !.chats = Append(@, [employee_name |-> employee_name,
                                                   question |-> question,
                                                   response |-> response.content,
                                                   answered |-> response.ok,
                                                   after |-> Len(history.analyses),
                                                   logged |-> after # Session])]
    /\ SessionFrame

InitSession == Init /\ feature_columns = ColumnsAllLevels

NextSession == SessionAnalyze \/ SessionChat

SpecSession == InitSession /\ [][NextSession]_vars

(* ------------- the three places that grade a probability -------------- *)

\* every probability in hundredths
Hundredths == 0 .. 100

\* a prediction with probability p has been made and nothing is shown yet
InitTiers ==
    /\ feature_columns = ColumnsAllLevels
    /\ test_data = ReadCsv(feature_columns)
    /\ threshold = Threshold
    /\ out = NoResult
    /\ calls = <<>>
    /\ \E p \in Hundredths :
          analyzed = [NoResult EXCEPT !.kind = "result", !.attrition_probability = p,
                                      !.will_leave = (p >= Threshold)]
    /\ risk_level = ""
    /\ narrative = NoNarrative
    /\ displayed = NotDisplayed
    /\ current_session_file = NewSession.current_session_file
    /\ chat_log = NewSession.chat_log
    /\ session_files = NewSession.session_files
    /\ chat = NoChats
    /\ construction = [pc |-> "done", loaded |-> Components]
    /\ history = NoHistory

TiersFrame ==
    UNCHANGED <<feature_columns, test_data, threshold, out, calls, analyzed,
                current_session_file, chat_log, session_files, chat, construction, history>>

\* display_results prints the risk level
DisplayResults ==
    /\ risk_level = ""
    /\ risk_level' = RiskLevel(analyzed.attrition_probability)
    /\ UNCHANGED <<narrative, displayed>>
    /\ TiersFrame

\* get_conversation_starter picks the suggested questions
ConversationStarter ==
    /\ narrative.suggested = ""
    /\ narrative' = [narrative EXCEPT
                        !.suggested = get_conversation_starter(analyzed.attrition_probability)]
    /\ UNCHANGED <<risk_level, displayed>>
    /\ TiersFrame

\* display_prediction_results renders the badge
DisplayPredictionResults ==
    /\ ~displayed.shown
    /\ displayed' = [shown |-> TRUE,
                     attrition_probability |-> analyzed.attrition_probability,
                     will_leave |-> analyzed.will_leave,
                     risk_badge |-> risk_badge(analyzed.attrition_probability)]
    /\ UNCHANGED <<risk_level, narrative>>
    /\ TiersFrame

NextTiers == DisplayResults \/ ConversationStarter \/ DisplayPredictionResults

SpecTiers == InitTiers /\ [][NextTiers]_vars

(* ------------------------------ claims -------------------------------- *)

\* the state holds the output of the builder for the profile out.simplified_input
ProfileBuilt == out.path = "profile" /\ out.kind \in {"vector", "result"}

\* the option labels offered for a categorical attribute: the labels of the
\* mapping table, and "No" for OverTime, which has no column of its own
KnownOptions(key) ==
    DOMAIN categorical_mappings[key] \cup (IF key = "OverTime" THEN {"No"} ELSE {})

IsKnownOption(key, v) == v.t = "str" /\ Len(v.s) = 1 /\ v.s[1] \in KnownOptions(key)

\* the columns of an attribute's group that are declared and hold 1
GroupOnes(key) ==
    {c \in ColumnGroup(key) \cap DOMAIN out.features.val :
        out.features.val[c] = [num |-> 1, den |-> 1]}

\* the declared columns of an attribute's group that hold neither 0 nor 1
GroupOthers(key) ==
    {c \in ColumnGroup(key) \cap DOMAIN out.features.val :
        out.features.val[c] \notin {[num |-> 0, den |-> 1], [num |-> 1, den |-> 1]}}

\* C1 (as claimed): the feature vector built from a profile has exactly the
\* declared columns as keys: none missing, none added.
C1_KeySetIsDeclared ==
    ProfileBuilt =>
        /\ Range(out.features.keys) = Range(feature_columns)
        /\ Len(out.features.keys) = Len(feature_columns)

\* C2 (as claimed): a row index outside [0, N-1], negative or >= N, ends in the
\* not-found error naming N-1, without a classifier call; index N-1 succeeds.
C2_OutsideRangeNotFound ==
    (out.path = "test" /\ out.op = "test") =>
        LET n == Len(test_data) IN
        /\ (out.req < 0 \/ out.req >= n) =>
              /\ out.kind = "error"
              /\ out.error[4] = ToString(n - 1)
              /\ calls = <<>>
        /\ (out.req = n - 1) => out.kind = "result"

\* C3: for a valid row index the result's features have exactly the declared
\* columns as keys, in the declared order, with the row's stored values.
C3_TestRowFeatures ==
    (out.path = "test" /\ out.kind = "result" /\ out.req \in 0 .. (Len(test_data) - 1)) =>
        /\ out.features.keys = feature_columns
        /\ DOMAIN out.features.val = Range(feature_columns)
        /\ \A c \in Range(feature_columns) :
              out.features.val[c] = test_data[out.req + 1].val[c]

C3_Witness ==
    /\ out.path = "test" /\ out.op = "test" /\ out.kind = "result"
    /\ out.req = Len(test_data) - 1
    /\ out.features.keys # test_data[out.req + 1].keys

\* C4: a numeric attribute present in the profile is stored as
\* (value - center) / scale with its fixed constants; Age 35 gives exactly 0
\* and Age 45 exactly 1.
C4_NumericNormalization ==
    ProfileBuilt =>
        \A a \in {"Age", "MonthlyIncome", "YearsAtCompany", "DistanceFromHome"}
                 \cap DOMAIN out.simplified_input :
            LET v == out.simplified_input[a].n
                center == CASE a = "Age" -> 35 [] a = "MonthlyIncome" -> 6000
                            [] a = "YearsAtCompany" -> 5 [] a = "DistanceFromHome" -> 10
                scale == CASE a = "Age" -> 10 [] a = "MonthlyIncome" -> 4000
                           [] a = "YearsAtCompany" -> 5 [] a = "DistanceFromHome" -> 10
            IN /\ a \in DOMAIN out.features.val
               /\ out.features.val[a].den > 0
               /\ out.features.val[a].num * scale = (v - center) * out.features.val[a].den
               /\ (a = "Age" /\ v = 35) => out.features.val[a] = [num |-> 0, den |-> 1]
               /\ (a = "Age" /\ v = 45) => out.features.val[a] = [num |-> 1, den |-> 1]

C4_Witness ==
    /\ ProfileBuilt
    /\ {"Age", "MonthlyIncome"} \subseteq DOMAIN out.simplified_input
    /\ out.simplified_input["Age"].n = 45
    /\ out.simplified_input["MonthlyIncome"].n = 10000
    /\ out.features.val["Age"] = [num |-> 1, den |-> 1]
    /\ out.features.val["MonthlyIncome"] = [num |-> 1, den |-> 1]

\* C5 (as claimed): for every categorical attribute with a known option
\* selected, exactly one column of its group is 1 and every sibling is 0.
C5_ExactlyOneForKnownOption ==
    ProfileBuilt =>
        \A key \in DOMAIN out.simplified_input \cap DOMAIN categorical_mappings :
            IsKnownOption(key, out.simplified_input[key]) =>
                Cardinality(GroupOnes(key)) = 1 /\ GroupOthers(key) = {}

\* C5 (amended): at most one column of each attribute's group is 1 and the
\* others are 0; when the selected option maps to a declared column, exactly
\* that column is 1.
C5_OneHotExclusive ==
    ProfileBuilt =>
        \A key \in DOMAIN categorical_mappings :
            /\ Cardinality(GroupOnes(key)) <= 1
            /\ GroupOthers(key) = {}
            /\ (/\ key \in DOMAIN out.simplified_input
                /\ out.simplified_input[key].t = "str"
                /\ Len(out.simplified_input[key].s) = 1
                /\ out.simplified_input[key].s[1] \in DOMAIN categorical_mappings[key]
                /\ categorical_mappings[key][out.simplified_input[key].s[1]]
                      \in Range(feature_columns))
               => GroupOnes(key) = {categorical_mappings[key][out.simplified_input[key].s[1]]}

C5_Witness ==
    /\ ProfileBuilt
    /\ "Department" \in DOMAIN out.simplified_input
    /\ out.simplified_input["Department"] = Str(<<"Sales">>)
    /\ {"Department_Sales", "Department_Human Resources",
        "Department_Research & Development"} \subseteq DOMAIN out.features.val
    /\ GroupOnes("Department") = {"Department_Sales"}

\* C6 (as claimed): a categorical attribute whose value is unknown or an
\* "other" entry sets no model column and is recorded in LLMContext with
\* exactly the free text the user supplied.
C6_UnknownRecordedLiterally ==
    ProfileBuilt =>
        \A key \in DOMAIN out.simplified_input \cap DOMAIN categorical_mappings :
            LET v == out.simplified_input[key] IN
            (v.t = "str" /\ ~IsKnownOption(key, v)) =>
                /\ GroupOnes(key) = {}
                /\ key \in DOMAIN out.llm_context
                /\ out.llm_context[key] = IF StartsWithOther(v) THEN Tail(v.s) ELSE v.s

\* C7 (as claimed): an attribute with neither numeric nor categorical handling
\* stays out of the feature vector and is passed to LLMContext unchanged; the
\* name is never placed in LLMContext.
C7_UnhandledPassedThrough ==
    ProfileBuilt =>
        /\ "name" \notin DOMAIN out.llm_context
        /\ \A key \in DOMAIN out.simplified_input \
                      ({"name"} \cup NumericKeys \cup OptionalNumericKeys
                       \cup DOMAIN categorical_mappings) :
              /\ key \notin Range(out.features.keys)
              /\ key \in DOMAIN out.llm_context
              /\ out.llm_context[key] = out.simplified_input[key].s

\* C8: on every prediction path of the predictor, will_leave is true exactly
\* when the probability is >= the threshold; a probability equal to the
\* threshold means will leave.
C8_ThresholdDecision ==
    (out.kind = "result" /\ out.path \in {"test", "profile"}) =>
        /\ out.will_leave <=> (out.attrition_probability >= threshold)
        /\ (out.attrition_probability = threshold) => out.will_leave

C8_Witness ==
    /\ out.kind = "result" /\ out.path = "profile" /\ out.op = "get_attrition"
    /\ out.attrition_probability = threshold
    /\ out.will_leave

\* C9 (as claimed): every prediction result handed to the narrative analyzer
\* has will_leave = (attrition_probability >= 0.68).
C9_AnalyzedUsesFixedThreshold ==
    analyzed.kind = "result" =>
        (analyzed.will_leave <=> (analyzed.attrition_probability >= 68))

\* C10 (as claimed): 0.8 maps to Very High, 0.6 to High, 0.4 to Medium and
\* anything below 0.4 to Low.
C10_FourTierBoundaries ==
    risk_level # "" =>
        /\ (out.attrition_probability = 80) => risk_level = "VERY HIGH RISK"
        /\ (out.attrition_probability = 60) => risk_level = "HIGH RISK"
        /\ (out.attrition_probability = 40) => risk_level = "MEDIUM RISK"
        /\ (out.attrition_probability < 40) => risk_level = "LOW RISK"

\* C10 (amended): the tiers are High from 0.7 (so 0.8 is High), Medium from
\* 0.4 up to but excluding 0.7 (so 0.6 and 0.4 are Medium), Low below 0.4.
C10_ThreeTierBoundaries ==
    risk_level # "" =>
        /\ (out.attrition_probability >= 70) => risk_level = "HIGH RISK"
        /\ (out.attrition_probability >= 40 /\ out.attrition_probability < 70)
              => risk_level = "MEDIUM RISK"
        /\ (out.attrition_probability < 40) => risk_level = "LOW RISK"

C10_Witness ==
    /\ risk_level = "HIGH RISK"
    /\ out.op = "standalone"
    /\ out.attrition_probability = 70

\* the columns that the attributes supplied in a profile target
TargetedColumns(data) ==
    {numeric_mappings[i].key : i \in {j \in DOMAIN numeric_mappings :
                                          numeric_mappings[j].key \in DOMAIN data}}
    \cup {optional_numeric_mappings[i].feature_name :
             i \in {j \in DOMAIN optional_numeric_mappings :
                       optional_numeric_mappings[j].key \in DOMAIN data}}
    \cup {FeatureCol(key, data[key]) :
             key \in {k \in DOMAIN data : KnownCategorical(k, data[k])}}

ScenarioOnes ==
    {"Age", "MonthlyIncome", "YearsAtCompany", "DistanceFromHome", "OverTime_Yes",
     "Department_Sales"}

\* C11: the end-to-end profile (Age 45, MonthlyIncome 10000, YearsAtCompany 10,
\* DistanceFromHome 20, OverTime Yes, Department Sales) yields 1 in its six
\* columns and 0 in every other column; for every profile a declared column
\* that no supplied attribute targets stays 0.
C11_ScenarioVector ==
    ProfileBuilt =>
        /\ (out.simplified_input = ScenarioProfile) =>
              /\ ScenarioOnes \subseteq DOMAIN out.features.val
              /\ \A c \in DOMAIN out.features.val :
                    out.features.val[c] = IF c \in ScenarioOnes THEN [num |-> 1, den |-> 1]
                                          ELSE [num |-> 0, den |-> 1]
        /\ \A c \in Range(feature_columns) \ TargetedColumns(out.simplified_input) :
              out.features.val[c] = [num |-> 0, den |-> 1]

C11_Witness ==
    /\ ProfileBuilt
    /\ out.kind = "result"
    /\ feature_columns = ColumnsAllLevels
    /\ out.simplified_input = ScenarioProfile
    /\ out.features.val["Department_Sales"] = [num |-> 1, den |-> 1]
    /\ out.features.val["Department_Research & Development"] = [num |-> 0, den |-> 1]

\* the vectors handed to scaler.transform by the operation that produced out
ScalerVectors == {calls[i].values : i \in {j \in DOMAIN calls : calls[j].fn = "scaler.transform"}}

\* C12 (as claimed): the vector handed to the scaler for a profile prediction
\* has exactly as many values as there are declared columns and lists them in
\* the declared column order.
C12_ScalerVectorInDeclaredOrder ==
    \A vec \in ScalerVectors :
        /\ Len(vec) = Len(feature_columns)
        /\ out.kind = "result" =>
              \A j \in DOMAIN vec : vec[j] = out.features.val[feature_columns[j]]

\* the stored row that a successful test-row prediction used (.iloc position)
UsedRow ==
    test_data[IF out.req >= 0 THEN out.req + 1 ELSE Len(test_data) + out.req + 1]

\* C13: a prediction from a test row never invokes the scaler and passes the
\* stored row values directly to the classifier; a prediction from a profile
\* invokes scaler.transform exactly once, before the one classifier call,
\* which receives the scaled vector.
C13_ScalingAsymmetry ==
    /\ (out.path = "test" /\ out.kind = "result") =>
          /\ ScalerVectors = {}
          /\ Len(calls) = 1
          /\ calls[1].fn = "model.predict_proba"
          /\ ~calls[1].scaled
          /\ calls[1].values = [j \in 1 .. Len(feature_columns) |->
                                  UsedRow.val[feature_columns[j]]]
    /\ (out.path = "profile" /\ out.kind = "result") =>
          /\ Len(calls) = 2
          /\ calls[1].fn = "scaler.transform"
          /\ calls[2].fn = "model.predict_proba"
          /\ calls[2].scaled
          /\ calls[2].values = calls[1].values

C13_Witness ==
    /\ out.op = "pipeline" /\ out.path = "profile" /\ out.kind = "result"
    /\ Len(calls) = 2
    /\ calls[1].fn = "scaler.transform"
    /\ narrative.state = "ok"

\* the numeric questions of the schema
NumberFeatures == {config_features[i] : i \in {j \in DOMAIN config_features :
                                                   config_features[j].type = "number"}}

\* C14 (as claimed): a numeric answer of the interactive collection is stored
\* in the profile only if it lies within the attribute's declared [min, max],
\* also when the declared min is 0.
C14_StoredWithinDeclaredRange ==
    (out.op \in {"interactive", "standalone"} /\ out.path = "profile" /\ out.kind = "result") =>
        \A f \in NumberFeatures :
            f.key \in DOMAIN out.simplified_input =>
                /\ out.simplified_input[f.key].n >= f.min
                /\ out.simplified_input[f.key].n <= f.max

\* C15 (as claimed): whenever a profile's feature vector has been handed to
\* the scaler, on any path (interactive or HTTP), every numeric attribute of
\* the profile lies within its declared valid range.
C15_NoOutOfRangeReachesScaler ==
    (out.path = "profile" /\ out.kind = "result" /\ ScalerVectors # {}) =>
        \A f \in NumberFeatures :
            f.key \in DOMAIN out.simplified_input =>
                out.simplified_input[f.key].n \in f.min .. f.max

\* the vectors handed to the scaler or the classifier
CollaboratorVectors == {calls[i].values : i \in DOMAIN calls}

\* C16 (as claimed): when the scaler or classifier is invoked with a vector
\* whose length differs from the number of declared columns, the request ends
\* in a ModelInputError naming the expected and the actual column count.
C16_MismatchEndsInModelInputError ==
    \A vec \in CollaboratorVectors :
        Len(vec) # Len(feature_columns) =>
            /\ out.kind = "raise"
            /\ out.error = <<"ModelInputError", ToString(Len(feature_columns)),
                             ToString(Len(vec))>>

\* C17: when the LLM call of the analysis fails, the prediction is still
\* delivered: /analyze and /pipeline answer with the prediction's probability
\* and will_leave, and the CLI has displayed them.
C17_PredictionSurvivesNarrativeFailure ==
    (narrative.state = "failed") =>
        /\ analyzed.kind = "result"
        /\ out.op \in {"analyze", "pipeline"} =>
              /\ out.kind = "result"
              /\ out.attrition_probability = analyzed.attrition_probability
              /\ out.will_leave = analyzed.will_leave
        /\ out.op = "main" =>
              /\ displayed.shown
              /\ displayed.attrition_probability = analyzed.attrition_probability
              /\ displayed.will_leave = analyzed.will_leave

C17_Witness ==
    /\ narrative.state = "failed"
    /\ out.op = "analyze"
    /\ out.kind = "result"
    /\ out.will_leave
    /\ narrative.analysis = <<"Analysis failed: ", "LLM unavailable">>
    /\ current_session_file = NoSessionFile

\* C18 (as claimed): on /analyze, /get_attrition and /pipeline a row index
\* beyond the last test row is answered with status 404 carrying the
\* predictor's not-found message.
C18_BeyondLastRowIs404 ==
    (out.op \in {"analyze", "get_attrition", "pipeline"} /\ out.path = "test"
        /\ out.req >= Len(test_data)) =>
        /\ out.kind = "http"
        /\ out.status = 404
        /\ out.error = NotFoundMessage(out.req, Len(test_data))

\* C19: no prediction request, successful or failing, changes the declared
\* column list, the test dataset or the threshold, and the scaler and the
\* classifier are only ever asked to transform and to predict.
C19_ArtefactsUnchanged ==
    [][/\ feature_columns' = feature_columns
       /\ test_data' = test_data
       /\ threshold' = threshold
       /\ \A i \in DOMAIN calls' :
             calls'[i].fn \in {"scaler.transform", "model.predict_proba"}]_vars

C19_Witness ==
    /\ out.kind = "http" /\ out.status = 500 /\ out.path = "profile"
    /\ ScalerVectors # {}
    /\ feature_columns = ColumnsSelected
    /\ test_data = ReadCsv(ColumnsSelected)
    /\ threshold = Threshold

\* the text occurs in the content as a contiguous run
Contains(content, text) ==
    \E i \in 1 .. (Len(content) - Len(text) + 1) :
        SubSeq(content, i, i + Len(text) - 1) = text

AllChatsDone == \A t \in Threads : chat[t].pc = "done"

\* C20 (as claimed): once all concurrent chat requests have finished, the
\* session file contains every chat entry that was logged.
C20_NoChatEntryLost ==
    (AllChatsDone /\ current_session_file # NoSessionFile) =>
        \A i \in DOMAIN chat_log :
            Contains(session_files[current_session_file], EntryText(chat_log[i]))

\* the optional numeric attributes the caller omitted: skipped at the
\* interactive question, or absent from the supplied profile
Omitted(m) == m.key \in out.defaulted \/ m.key \notin DOMAIN out.simplified_input

\* C21 (as claimed): when the caller omits an optional numeric attribute, the
\* profile prediction uses its default, the domain mean, so the attribute's
\* normalized column holds 0; on the interactive and on the HTTP paths.
C21_OmittedOptionalIsNeutral ==
    (out.path = "profile" /\ out.kind = "result") =>
        \A i \in DOMAIN optional_numeric_mappings :
            LET m == optional_numeric_mappings[i] IN
            (Omitted(m) /\ m.feature_name \in Range(feature_columns)) =>
                out.features.val[m.feature_name] = [num |-> 0, den |-> 1]

\* C22 (as claimed): CLI option 2 and POST /analyze with choice 2 and employee
\* data pass the profile to the predictor's profile operation and get back a
\* prediction result; the call does not end in an error.
C22_ProfileCallersGetPrediction ==
    (out.op \in {"main", "analyze"} /\ out.path = "profile") =>
        /\ out.kind = "result"
        /\ out.will_leave = (out.attrition_probability >= threshold)

\* C23 (as claimed): whenever construction of the predictor completes without
\* raising, the classifier, the scaler and the column list have been loaded,
\* and no later prediction fails because one of them is missing.
C23_ConstructedMeansLoaded ==
    Constructed =>
        /\ Components \subseteq construction.loaded
        /\ ~(out.kind = "raise" /\ out.error = <<"AttributeError">>)

\* C29 (as claimed): when a random test employee is asked for (CLI option 1,
\* /analyze with choice 1 and no index), the index drawn is in [0, N-1] for
\* every dataset size N: the prediction is never the not-found error and the
\* flow never fails on the draw itself.
C29_RandomDrawInRange ==
    (out.op \in {"main", "analyze"} /\ out.drawn) =>
        /\ ~(out.kind = "raise" /\ out.error = <<"ValueError">>)
        /\ out.kind \notin {"error", "http"}
        /\ out.req \in 0 .. (Len(test_data) - 1)

\* the chat requests whose entry stands in the file
EntriesIn(f) ==
    {i \in DOMAIN history.chats :
        Contains(session_files[f],
                 EntryText([question |-> history.chats[i].question,
                            response |-> history.chats[i].response]))}

\* the employees whose successful analysis created the file
EmployeesOf(f) ==
    {history.analyses[j].employee_name :
        j \in {k \in DOMAIN history.analyses : history.analyses[k].file = f}}

\* C24 (as claimed): after any sequence of analyses (succeeding or failing)
\* and chats on one analyzer, every chat entry stands only in a session file
\* created by the analysis of the employee the chat is about.
C24_ChatLoggedWithItsEmployee ==
    \A f \in DOMAIN session_files :
        \A i \in EntriesIn(f) : history.chats[i].employee_name \in EmployeesOf(f)

\* the successful analyses, and the last of them
OkAnalyses == {j \in DOMAIN history.analyses : history.analyses[j].ok}

LastAnalysis == CHOOSE j \in OkAnalyses : \A k \in OkAnalyses : k <= j

\* the answered chats asked since analysis j, in the order they were asked
RECURSIVE ChatsSince(_, _)
ChatsSince(j, n) ==
    IF n = 0 THEN <<>>
    ELSE LET c == history.chats[n] IN
         IF c.answered /\ c.after >= j
         THEN Append(ChatsSince(j, n - 1), [question |-> c.question, response |-> c.response])
         ELSE ChatsSince(j, n - 1)

\* C25 (as claimed): after k >= 1 chats that follow a successful analysis the
\* session file is the complete analysis report, unchanged, followed by one
\* Follow-up Chat section with the k entries in the order asked, whatever the
\* analysis text and the question and response texts are.
C25_ReportThenOneChatSection ==
    (OkAnalyses # {} /\ ChatsSince(LastAnalysis, Len(history.chats)) # <<>>) =>
        /\ current_session_file = history.analyses[LastAnalysis].file
        /\ session_files[current_session_file] =
               history.analyses[LastAnalysis].report
                   \o ChatSection(ChatsSince(LastAnalysis, Len(history.chats)))

\* C27 (as claimed): two distinct successful analyses, for the same or for
\* different employee names and at any times, never write their reports to
\* the same file path.
C27_DistinctAnalysesDistinctFiles ==
    \A i, j \in OkAnalyses :
        i # j => history.analyses[i].file # history.analyses[j].file

\* the current session file holds no entry of a chat asked before the
\* analysis that started the session
OnlySessionEntries ==
    (current_session_file # NoSessionFile /\ OkAnalyses # {}) =>
        \A i \in EntriesIn(current_session_file) : history.chats[i].after >= LastAnalysis

\* the step is a successful analysis
AnalysisSucceeds ==
    /\ Len(history'.analyses) = Len(history.analyses) + 1
    /\ history'.analyses[Len(history'.analyses)].ok

Tier(p) == IF p >= 70 THEN "high" ELSE IF p >= 40 THEN "medium" ELSE "low"

TierOfLabel(label) ==
    CASE label = "HIGH RISK" -> "high"
      [] label = "MEDIUM RISK" -> "medium"
      [] label = "LOW RISK" -> "low"
      [] OTHER -> "none"

\* C28: for every probability p the risk level of display_results, the
\* suggested-question set of get_conversation_starter and the Streamlit risk
\* badge put p in the same tier: High for p >= 0.7, Medium for
\* 0.4 <= p < 0.7, Low for p < 0.4.
C28_TiersAgree ==
    LET p == analyzed.attrition_probability IN
    /\ risk_level # "" => TierOfLabel(risk_level) = Tier(p)
    /\ narrative.suggested # "" => narrative.suggested = Tier(p)
    /\ displayed.risk_badge # "" => TierOfLabel(displayed.risk_badge) = Tier(p)
    /\ (risk_level # "" /\ displayed.risk_badge # "") =>
           TierOfLabel(risk_level) = TierOfLabel(displayed.risk_badge)
    /\ (risk_level # "" /\ narrative.suggested # "") =>
           TierOfLabel(risk_level) = narrative.suggested

C28_Witness ==
    /\ analyzed.attrition_probability = 70
    /\ risk_level = "HIGH RISK"
    /\ narrative.suggested = "high"
    /\ displayed.risk_badge = "HIGH RISK"

\* C30 (as claimed): on /get_attrition and /pipeline a request that supplies
\* neither a test index nor any employee attribute is answered with status
\* 400 and with no other status.
C30_NothingSuppliedIs400 ==
    (out.op \in {"get_attrition", "pipeline"} /\ out.kind = "http"
        /\ out.error \in {<<"Provide either test_index or employee data">>,
                          <<"No employee data provided">>}) =>
        out.status = 400

====
